---- MODULE Spec2Model ----
(***************************************************************************)
(* Model of FraudPreventionService (Earn9ja backend): the admission gate   *)
(* checkForFraud with its sub-checks over the OfferWallTransaction ledger, *)
(* the flag store kept in Redis, and the caller that credits the user.     *)
(* Time is Date.now() in milliseconds.                                     *)
(***************************************************************************)
EXTENDS Integers, Sequences, FiniteSets, TLC

VARIABLES now, ledger, redis, call, returned, ticks, calls

vars == <<now, ledger, redis, call, returned, ticks, calls>>

(* ---------------------------------------------------------------------- *)
(* Program constants                                                       *)
(* ---------------------------------------------------------------------- *)
RATE_LIMIT_HOUR == 20
RATE_LIMIT_DAY == 100
MIN_COMPLETION_TIME == 30
HIGH_RISK_THRESHOLD == 70
MEDIUM_RISK_THRESHOLD == 40
FLAG_TTL == 86400 * 7

SECOND == 1000
HOUR == 60 * 60 * 1000
DAY == 24 * 60 * 60 * 1000

(* ---------------------------------------------------------------------- *)
(* Bounds of the model                                                     *)
(* ---------------------------------------------------------------------- *)
MaxCalls == 2
MaxRacing == 2
MaxTicks == 2

Procs == {1, 2}
Users == {"u1", "u2"}

(* completion events delivered by the providers:                           *)
(* <<userId, externalTransactionId, amount, providerId>>                   *)
Events ==
    { <<"u1", 1, 500, "p1">>,      \* a first delivery
      <<"u1", 2, 500, "p1">>,      \* same user, provider and amount, another id
      <<"u1", 2, 250, "p2">>,      \* another offer of the same user
      <<"u2", 1, 250, "p2">> }     \* another user
AdminReasons == {"manual review", "chargeback"}
TickSteps == {1 * SECOND, 61 * SECOND}

T0 == 8 * DAY

(* User collection: u1 is a 3-day-old account, u2 an 8-day-old one.        *)
UserCreatedAt == [u \in Users |-> IF u = "u1" THEN T0 - 3 * DAY ELSE T0 - 8 * DAY]

Max(a, b) == IF a >= b THEN a ELSE b
Min(a, b) == IF a <= b THEN a ELSE b
CeilDiv(a, b) == -((-a) \div b)

(* ---------------------------------------------------------------------- *)
(* Ledger contents the service can find at start-up                        *)
(* ---------------------------------------------------------------------- *)
Rec(e, u, p, a, s, t) ==
    [externalTransactionId |-> e, userId |-> u, providerId |-> p,
     convertedAmount |-> a, status |-> s, createdAt |-> t]

EmptyLedger == {}

(* one pending and one failed record whose ids later deliveries may repeat *)
MixedLedger ==
    { Rec(1, "u1", "p1", 500, "pending", T0 - 5 * SECOND),
      Rec(2, "u2", "p2", 250, "failed", T0 - 2 * HOUR) }

(* u1 completed 20 offers in the last hour, 120s apart, the newest 10s     *)
(* ago; u2 completed two offers, one and two hours ago                     *)
BusyHourLedger ==
    { Rec(100 + i, "u1", IF i % 2 = 0 THEN "p2" ELSE "p1", 250, "completed",
          T0 - 10 * SECOND - (20 - i) * 120 * SECOND) : i \in 1..20 }
    \cup { Rec(201, "u2", "p1", 250, "completed", T0 - 2 * HOUR),
           Rec(202, "u2", "p2", 250, "completed", T0 - HOUR - 1 * SECOND) }

InitLedgers == {EmptyLedger, MixedLedger, BusyHourLedger}

(* ---------------------------------------------------------------------- *)
(* Ledger queries                                                          *)
(* ---------------------------------------------------------------------- *)
findByExternalId(L, ext) == {r \in L : r.externalTransactionId = ext}

(* ---------------------------------------------------------------------- *)
(* checkDuplicate                                                          *)
(* ---------------------------------------------------------------------- *)
(* the one-minute window without its first instant                         *)
checkDuplicate_Strict(L, t, ext, u, amount, prov) ==
    IF findByExternalId(L, ext) # {}
    THEN [isDuplicate |-> TRUE, reason |-> "Transaction ID already exists"]
    ELSE IF \E r \in L : /\ r.userId = u
                         /\ r.providerId = prov
                         /\ r.convertedAmount = amount
                         /\ r.createdAt > t - 60 * 1000
         THEN [isDuplicate |-> TRUE, reason |-> "Similar transaction within 1 minute"]
         ELSE [isDuplicate |-> FALSE, reason |-> ""]

checkDuplicate(L, t, ext, u, amount, prov) ==
    IF findByExternalId(L, ext) # {}
    THEN [isDuplicate |-> TRUE, reason |-> "Transaction ID already exists"]
    ELSE IF \E r \in L : /\ r.userId = u
                         /\ r.providerId = prov
                         /\ r.convertedAmount = amount
                         /\ r.createdAt >= t - 60 * 1000
         THEN [isDuplicate |-> TRUE, reason |-> "Similar transaction within 1 minute"]
         ELSE [isDuplicate |-> FALSE, reason |-> ""]

(* ---------------------------------------------------------------------- *)
(* checkRateLimit                                                          *)
(* ---------------------------------------------------------------------- *)
(* a count that takes records of any status                                *)
countCompleted_AnyStatus(L, u, since) ==
    Cardinality({r \in L : r.userId = u /\ r.createdAt >= since})

countCompleted(L, u, since) ==
    Cardinality({r \in L : r.userId = u /\ r.status = "completed" /\ r.createdAt >= since})

checkRateLimit(L, t, u) ==
    LET hourlyCount == countCompleted(L, u, t - 60 * 60 * 1000)
        dailyCount == countCompleted(L, u, t - 24 * 60 * 60 * 1000)
    IN  IF hourlyCount >= RATE_LIMIT_HOUR
        THEN [allowed |-> FALSE,
              reason |-> "Rate limit exceeded: " \o ToString(hourlyCount) \o "/"
                          \o ToString(RATE_LIMIT_HOUR) \o " per hour",
              retryAfter |-> 3600]
        ELSE IF dailyCount >= RATE_LIMIT_DAY
        THEN [allowed |-> FALSE,
              reason |-> "Daily limit exceeded: " \o ToString(dailyCount) \o "/"
                          \o ToString(RATE_LIMIT_DAY) \o " per day",
              retryAfter |-> 86400]
        ELSE [allowed |-> TRUE, reason |-> "", retryAfter |-> 0]

(* ---------------------------------------------------------------------- *)
(* checkCompletionCooldown                                                 *)
(* ---------------------------------------------------------------------- *)
(* the remaining wait rounded down                                         *)
checkCompletionCooldown_Floor(L, t, u) ==
    LET done == {r \in L : r.userId = u /\ r.status = "completed"}
    IN  IF done = {}
        THEN [allowed |-> TRUE, reason |-> "", retryAfter |-> 0]
        ELSE LET lastCompletion == CHOOSE r \in done :
                                      \A q \in done : q.createdAt <= r.createdAt
                 sinceMs == t - lastCompletion.createdAt
             IN  IF sinceMs < MIN_COMPLETION_TIME * 1000
                 THEN [allowed |-> FALSE,
                       reason |-> "Cooldown period: " \o ToString(MIN_COMPLETION_TIME)
                                   \o "s between completions",
                       retryAfter |-> (MIN_COMPLETION_TIME * 1000 - sinceMs) \div 1000]
                 ELSE [allowed |-> TRUE, reason |-> "", retryAfter |-> 0]

checkCompletionCooldown(L, t, u) ==
    LET done == {r \in L : r.userId = u /\ r.status = "completed"}
    IN  IF done = {}
        THEN [allowed |-> TRUE, reason |-> "", retryAfter |-> 0]
        ELSE LET lastCompletion == CHOOSE r \in done :
                                      \A q \in done : q.createdAt <= r.createdAt
                 sinceMs == t - lastCompletion.createdAt
             IN  IF sinceMs < MIN_COMPLETION_TIME * 1000
                 THEN [allowed |-> FALSE,
                       reason |-> "Cooldown period: " \o ToString(MIN_COMPLETION_TIME)
                                   \o "s between completions",
                       retryAfter |-> CeilDiv(MIN_COMPLETION_TIME * 1000 - sinceMs, 1000)]
                 ELSE [allowed |-> TRUE, reason |-> "", retryAfter |-> 0]

(* ---------------------------------------------------------------------- *)
(* analyzeUserActivity                                                     *)
(* ---------------------------------------------------------------------- *)
RECURSIVE SortDesc(_)
SortDesc(S) ==
    IF S = {} THEN <<>>
    ELSE LET top == CHOOSE r \in S : \A q \in S : q.createdAt <= r.createdAt
         IN  <<top>> \o SortDesc(S \ {top})

RECURSIVE TotalTimeBetween(_, _)
TotalTimeBetween(txs, i) ==
    IF i >= Len(txs) THEN 0
    ELSE (txs[i].createdAt - txs[i + 1].createdAt) + TotalTimeBetween(txs, i + 1)

(* avgCompletionTime < s, for avgCompletionTime =                          *)
(* completionPairs > 0 ? totalTimeBetween / completionPairs / 1000 : 0     *)
AvgBelow(totalTimeBetween, completionPairs, s) ==
    IF completionPairs > 0
    THEN totalTimeBetween < s * 1000 * completionPairs
    ELSE 0 < s

(* the four pattern tests, in the order the labels are pushed              *)
suspiciousPatternsOf(completionsLastHour, completionsLast24h, totalTimeBetween, completionPairs, uniqueProviders, roundAmounts) ==
    LET p1 == IF completionsLastHour > 10
              THEN <<"High completion rate (>10/hour)">> ELSE <<>>
        p2 == IF AvgBelow(totalTimeBetween, completionPairs, 60) /\ completionPairs > 5
              THEN <<"Unusually fast completions (<60s avg)">> ELSE <<>>
        p3 == IF uniqueProviders = 1 /\ completionsLast24h > 20
              THEN <<"Single provider focus (>20 completions)">> ELSE <<>>
        \* roundAmounts > completionsLast24h * 0.8
        p4 == IF 10 * roundAmounts > 8 * completionsLast24h /\ completionsLast24h > 10
              THEN <<"Mostly round amounts (possible testing)">> ELSE <<>>
    IN  p1 \o p2 \o p3 \o p4

analyzeUserActivity(L, t, u) ==
    LET hourAgo == t - 60 * 60 * 1000
        dayAgo == t - 24 * 60 * 60 * 1000
        recentTransactions == SortDesc({r \in L : r.userId = u /\ r.createdAt >= dayAgo})
        n == Len(recentTransactions)
        completionsLast24h == n
        completionsLastHour ==
            Cardinality({i \in 1..n : recentTransactions[i].createdAt >= hourAgo})
        totalTimeBetween == TotalTimeBetween(recentTransactions, 1)
        completionPairs == IF n > 0 THEN n - 1 ELSE 0
        uniqueProviders == Cardinality({recentTransactions[i].providerId : i \in 1..n})
        roundAmounts ==
            Cardinality({i \in 1..n : recentTransactions[i].convertedAmount % 100 = 0})
    IN  [userId |-> u,
         completionsLast24h |-> completionsLast24h,
         completionsLastHour |-> completionsLastHour,
         totalTimeBetween |-> totalTimeBetween,
         completionPairs |-> completionPairs,
         uniqueProviders |-> uniqueProviders,
         suspiciousPatterns |->
             suspiciousPatternsOf(completionsLastHour, completionsLast24h, totalTimeBetween,
                                  completionPairs, uniqueProviders, roundAmounts)]

(* ---------------------------------------------------------------------- *)
(* calculateRiskScore                                                      *)
(* ---------------------------------------------------------------------- *)
(* User.findById(userId): found = FALSE is the null result                 *)
findUserById(u) ==
    IF u \in DOMAIN UserCreatedAt
    THEN [found |-> TRUE, createdAt |-> UserCreatedAt[u]]
    ELSE [found |-> FALSE, createdAt |-> 0]

(* the two completion-rate tiers exchanged                                 *)
riskScoreOf_TiersSwapped(activity, user, t) ==
    LET rate == IF activity.completionsLastHour > 15 THEN 15
                ELSE IF activity.completionsLastHour > 10 THEN 30 ELSE 0
        fast == IF AvgBelow(activity.totalTimeBetween, activity.completionPairs, 30) THEN 40
                ELSE IF AvgBelow(activity.totalTimeBetween, activity.completionPairs, 60)
                     THEN 20 ELSE 0
        single == IF activity.uniqueProviders = 1 /\ activity.completionsLast24h > 20
                  THEN 25 ELSE 0
        patterns == Len(activity.suspiciousPatterns) * 10
        young == IF /\ user.found
                    /\ t - user.createdAt < 7 * 24 * 60 * 60 * 1000
                    /\ activity.completionsLast24h > 30
                 THEN 20 ELSE 0
    IN  Min(rate + fast + single + patterns + young, 100)

(* the sum returned without the cap                                        *)
riskScoreOf_Uncapped(activity, user, t) ==
    LET rate == IF activity.completionsLastHour > 15 THEN 30
                ELSE IF activity.completionsLastHour > 10 THEN 15 ELSE 0
        fast == IF AvgBelow(activity.totalTimeBetween, activity.completionPairs, 30) THEN 40
                ELSE IF AvgBelow(activity.totalTimeBetween, activity.completionPairs, 60)
                     THEN 20 ELSE 0
        single == IF activity.uniqueProviders = 1 /\ activity.completionsLast24h > 20
                  THEN 25 ELSE 0
        patterns == Len(activity.suspiciousPatterns) * 10
        young == IF /\ user.found
                    /\ t - user.createdAt < 7 * 24 * 60 * 60 * 1000
                    /\ activity.completionsLast24h > 30
                 THEN 20 ELSE 0
    IN  rate + fast + single + patterns + young

(* the score calculateRiskScore computes from the analyzer's result and    *)
(* the user record                                                         *)
riskScoreOf(activity, user, t) ==
    LET rate == IF activity.completionsLastHour > 15 THEN 30
                ELSE IF activity.completionsLastHour > 10 THEN 15 ELSE 0
        fast == IF AvgBelow(activity.totalTimeBetween, activity.completionPairs, 30) THEN 40
                ELSE IF AvgBelow(activity.totalTimeBetween, activity.completionPairs, 60)
                     THEN 20 ELSE 0
        single == IF activity.uniqueProviders = 1 /\ activity.completionsLast24h > 20
                  THEN 25 ELSE 0
        patterns == Len(activity.suspiciousPatterns) * 10
        \* daysSinceCreation < 7
        young == IF /\ user.found
                    /\ t - user.createdAt < 7 * 24 * 60 * 60 * 1000
                    /\ activity.completionsLast24h > 30
                 THEN 20 ELSE 0
    IN  Min(rate + fast + single + patterns + young, 100)

calculateRiskScore(L, t, u) ==
    riskScoreOf(analyzeUserActivity(L, t, u), findUserById(u), t)

(* ---------------------------------------------------------------------- *)
(* The expiring key-value store (Redis): entries [key, value, expiresAt]   *)
(* ---------------------------------------------------------------------- *)
Null == <<>>

redisGet(R, t, key) ==
    LET live == {e \in R : e.key = key /\ e.expiresAt > t}
    IN  IF live = {} THEN Null ELSE (CHOOSE e \in live : TRUE).value

redisSetex(R, t, key, ttl, value) ==
    {e \in R : e.key # key} \cup {[key |-> key, value |-> value, expiresAt |-> t + ttl * 1000]}

(* the store drops an entry when its time to live is over                  *)
Expire(R, t) == {e \in R : e.expiresAt > t}

redisDel(R, key) == {e \in R : e.key # key}

redisKeys(R, t, prefix) == {e.key : e \in {x \in R : x.key[1] = prefix /\ x.expiresAt > t}}

(* JSON.stringify / JSON.parse of the flag document                        *)
JSONstringify(obj) == <<"userId", obj.userId, "reason", obj.reason, "flaggedAt", obj.flaggedAt>>
JSONparse(str) == [userId |-> str[2], reason |-> str[4], flaggedAt |-> str[6]]

FlagKey(u) == <<"fraud:flagged", u>>

(* ---------------------------------------------------------------------- *)
(* Flag store operations; ok = FALSE is the store call throwing            *)
(* ---------------------------------------------------------------------- *)
flagUserForReview(R, t, u, reason, ok) ==
    IF ok
    THEN redisSetex(R, t, FlagKey(u), FLAG_TTL,
                    JSONstringify([userId |-> u, reason |-> reason, flaggedAt |-> t]))
    ELSE R

isUserFlagged(R, t, u) == redisGet(R, t, FlagKey(u)) # Null

getFlaggedUsers(R, t) ==
    {JSONparse(redisGet(R, t, k)) : k \in {x \in redisKeys(R, t, "fraud:flagged") :
                                              redisGet(R, t, x) # Null}}

(* the delete issued for a key nobody holds                                *)
clearUserFlag_WrongKey(R, u, ok) == IF ok THEN redisDel(R, <<"fraud:flag", u>>) ELSE R

clearUserFlag(R, u, ok) == IF ok THEN redisDel(R, FlagKey(u)) ELSE R

(* ---------------------------------------------------------------------- *)
(* checkForFraud: the locals of one invocation and how each check          *)
(* updates them                                                            *)
(* ---------------------------------------------------------------------- *)
RECURSIVE Join(_, _)
Join(strs, sep) ==
    IF strs = <<>> THEN ""
    ELSE IF Len(strs) = 1 THEN strs[1]
    ELSE strs[1] \o sep \o Join(Tail(strs), sep)

IdleCall ==
    [pc |-> "idle", userId |-> "", externalTransactionId |-> 0, amount |-> 0,
     providerId |-> "", reasons |-> <<>>, riskScore |-> 0, isDuplicate |-> FALSE,
     action |-> "allow", existed |-> FALSE, failed |-> ""]

(* a duplicate weighted like a rate-limit breach                           *)
AfterDuplicate_Weak(c, duplicateCheck) ==
    IF duplicateCheck.isDuplicate
    THEN [c EXCEPT !.reasons = Append(@, duplicateCheck.reason),
                   !.riskScore = @ + 50,
                   !.isDuplicate = TRUE]
    ELSE c

AfterDuplicate(c, duplicateCheck) ==
    IF duplicateCheck.isDuplicate
    THEN [c EXCEPT !.reasons = Append(@, duplicateCheck.reason),
                   !.riskScore = @ + 100,
                   !.isDuplicate = TRUE]
    ELSE c

AfterRateLimit(c, rateLimitCheck) ==
    IF ~rateLimitCheck.allowed
    THEN [c EXCEPT !.reasons = Append(@, rateLimitCheck.reason), !.riskScore = @ + 50]
    ELSE c

AfterCooldown(c, cooldownCheck) ==
    IF ~cooldownCheck.allowed
    THEN [c EXCEPT !.reasons = Append(@, cooldownCheck.reason), !.riskScore = @ + 30]
    ELSE c

(* a score that also consults the flag store                               *)
AfterRiskScore_Flagged(c, userRiskScore) ==
    [c EXCEPT !.riskScore = Max(@, userRiskScore)
                              + (IF isUserFlagged(redis, now, c.userId) THEN 10 ELSE 0)]

AfterRiskScore(c, userRiskScore) ==
    [c EXCEPT !.riskScore = Max(@, userRiskScore)]

(* the comparison with the medium threshold made strict                   *)
DetermineAction_Strict(riskScore) ==
    IF riskScore >= HIGH_RISK_THRESHOLD THEN "block"
    ELSE IF riskScore > MEDIUM_RISK_THRESHOLD THEN "flag"
    ELSE "allow"

DetermineAction(riskScore) ==
    IF riskScore >= HIGH_RISK_THRESHOLD THEN "block"
    ELSE IF riskScore >= MEDIUM_RISK_THRESHOLD THEN "flag"
    ELSE "allow"

AfterAnalyze(c, activity) ==
    [c EXCEPT !.reasons = @ \o activity.suspiciousPatterns,
              !.action = DetermineAction(c.riskScore)]

Result(c) ==
    [isFraudulent |-> (c.action = "block"), reasons |-> c.reasons,
     riskScore |-> c.riskScore, action |-> c.action]

NoReturn == [op |-> "none"]

FraudReturn(p, c) ==
    [op |-> "checkForFraud", proc |-> p, userId |-> c.userId,
     externalTransactionId |-> c.externalTransactionId,
     existed |-> c.existed, value |-> Result(c)]

(* ---------------------------------------------------------------------- *)
(* Actions                                                                 *)
(* ---------------------------------------------------------------------- *)
Init ==
    /\ now = T0
    /\ ledger \in InitLedgers
    /\ redis = {}
    /\ call = [p \in Procs |-> IdleCall]
    /\ returned = NoReturn
    /\ ticks = 0
    /\ calls = 0

(* the webhook layer invokes checkForFraud for a completion event          *)
Begin(p, u, ext, amount, prov) ==
    /\ call[p].pc = "idle"
    /\ \A q \in Procs : q < p => call[q].pc # "idle"
    /\ calls' = calls + 1
    /\ call' = [call EXCEPT ![p] =
                  [IdleCall EXCEPT !.pc = "checkDuplicate", !.userId = u,
                                   !.externalTransactionId = ext, !.amount = amount,
                                   !.providerId = prov,
                                   !.existed = \E r \in ledger :
                                                  /\ r.externalTransactionId = ext
                                                  /\ r.status # "failed"]]
    /\ returned' = NoReturn
    /\ UNCHANGED <<now, ledger, redis, ticks>>

StepCheckDuplicate(p) ==
    /\ call[p].pc = "checkDuplicate"
    /\ LET c == call[p]
           d == checkDuplicate(ledger, now, c.externalTransactionId, c.userId,
                               c.amount, c.providerId)
       IN  call' = [call EXCEPT ![p] = [AfterDuplicate(c, d) EXCEPT !.pc = "checkRateLimit"]]
    /\ returned' = NoReturn
    /\ UNCHANGED <<now, ledger, redis, ticks, calls>>

StepCheckRateLimit(p) ==
    /\ call[p].pc = "checkRateLimit"
    /\ LET c == call[p]
       IN  call' = [call EXCEPT ![p] =
                      [AfterRateLimit(c, checkRateLimit(ledger, now, c.userId))
                          EXCEPT !.pc = "checkCompletionCooldown"]]
    /\ returned' = NoReturn
    /\ UNCHANGED <<now, ledger, redis, ticks, calls>>

StepCheckCompletionCooldown(p) ==
    /\ call[p].pc = "checkCompletionCooldown"
    /\ LET c == call[p]
       IN  call' = [call EXCEPT ![p] =
                      [AfterCooldown(c, checkCompletionCooldown(ledger, now, c.userId))
                          EXCEPT !.pc = "calculateRiskScore"]]
    /\ returned' = NoReturn
    /\ UNCHANGED <<now, ledger, redis, ticks, calls>>

StepCalculateRiskScore(p) ==
    /\ call[p].pc = "calculateRiskScore"
    /\ LET c == call[p]
       IN  call' = [call EXCEPT ![p] =
                      [AfterRiskScore(c, calculateRiskScore(ledger, now, c.userId))
                          EXCEPT !.pc = "analyzeUserActivity"]]
    /\ returned' = NoReturn
    /\ UNCHANGED <<now, ledger, redis, ticks, calls>>

(* the last ledger read, the decision and, unless it is block, the return  *)
StepAnalyzeUserActivity(p) ==
    /\ call[p].pc = "analyzeUserActivity"
    /\ LET c == AfterAnalyze(call[p], analyzeUserActivity(ledger, now, call[p].userId))
       IN  IF c.action = "block"
           THEN /\ call' = [call EXCEPT ![p] = [c EXCEPT !.pc = "flagUserForReview"]]
                /\ returned' = NoReturn
           ELSE /\ call' = [call EXCEPT ![p] = [c EXCEPT !.pc = "returned"]]
                /\ returned' = FraudReturn(p, c)
    /\ UNCHANGED <<now, ledger, redis, ticks, calls>>

(* await this.flagUserForReview(userId, reasons.join(", ")), then return   *)
StepFlagUserForReview(p) ==
    /\ call[p].pc = "flagUserForReview"
    /\ \E ok \in BOOLEAN :
          redis' = flagUserForReview(redis, now, call[p].userId,
                                     Join(call[p].reasons, ", "), ok)
    /\ call' = [call EXCEPT ![p].pc = "returned"]
    /\ returned' = FraudReturn(p, call[p])
    /\ UNCHANGED <<now, ledger, ticks, calls>>

(* the caller honours the action: allow and flag credit, block rejects;    *)
(* the ledger refuses a second non-failed record with the same id          *)
CallerHonours(p) ==
    /\ call[p].pc = "returned"
    /\ LET c == call[p]
       IN  IF /\ c.action # "block"
              /\ ~\E r \in ledger : /\ r.externalTransactionId = c.externalTransactionId
                                    /\ r.status # "failed"
           THEN ledger' = ledger \cup {Rec(c.externalTransactionId, c.userId, c.providerId,
                                           c.amount, "completed", now)}
           ELSE ledger' = ledger
    /\ call' = [call EXCEPT ![p] = IdleCall]
    /\ returned' = NoReturn
    /\ UNCHANGED <<now, redis, ticks, calls>>

Quiescent == \A p \in Procs : call[p].pc \in {"idle", "returned"}

(* direct calls of the flag-store operations                               *)
FlagUserForReview(u, reason) ==
    /\ calls < MaxCalls
    /\ calls' = calls + 1
    /\ \E ok \in BOOLEAN :
          /\ redis' = flagUserForReview(redis, now, u, reason, ok)
          /\ returned' = [op |-> "flagUserForReview", userId |-> u, reason |-> reason,
                          at |-> now, stored |-> ok]
    /\ UNCHANGED <<now, ledger, call, ticks>>

ClearUserFlag(u) ==
    /\ calls < MaxCalls
    /\ calls' = calls + 1
    /\ \E ok \in BOOLEAN :
          /\ redis' = clearUserFlag(redis, u, ok)
          /\ returned' = [op |-> "clearUserFlag", userId |-> u, deleted |-> ok,
                          wasFlagged |-> isUserFlagged(redis, now, u)]
    /\ UNCHANGED <<now, ledger, call, ticks>>

Tick(d) ==
    /\ ticks < MaxTicks
    /\ Quiescent
    /\ ticks' = ticks + 1
    /\ now' = now + d
    /\ redis' = Expire(redis, now')
    /\ returned' = NoReturn
    /\ UNCHANGED <<ledger, call, calls>>

(* the flag's lifetime goes by                                             *)
LongTick ==
    /\ Quiescent
    /\ now < T0 + FLAG_TTL * 1000
    /\ ticks < MaxTicks
    /\ ticks' = ticks + 1
    /\ now' = now + FLAG_TTL * 1000
    /\ redis' = Expire(redis, now')
    /\ returned' = NoReturn
    /\ UNCHANGED <<ledger, call, calls>>

(* One delivery at a time, with the flag-store operations and the clock.   *)
Next ==
    \/ \E e \in Events : calls < MaxCalls /\ Begin(1, e[1], e[2], e[3], e[4])
    \/ StepCheckDuplicate(1)
    \/ StepCheckRateLimit(1)
    \/ StepCheckCompletionCooldown(1)
    \/ StepCalculateRiskScore(1)
    \/ StepAnalyzeUserActivity(1)
    \/ StepFlagUserForReview(1)
    \/ CallerHonours(1)
    \/ \E u \in Users, reason \in AdminReasons : Quiescent /\ FlagUserForReview(u, reason)
    \/ \E u \in Users : Quiescent /\ ClearUserFlag(u)
    \/ \E d \in TickSteps : Tick(d)
    \/ LongTick

Spec == Init /\ [][Next]_vars

(* Concurrent deliveries: every await of checkForFraud is a point where    *)
(* the other invocation, or its caller, may run.                           *)
NextRace ==
    \/ \E p \in Procs, e \in Events : calls < MaxRacing /\ Begin(p, e[1], e[2], e[3], e[4])
    \/ \E p \in Procs : StepCheckDuplicate(p)
    \/ \E p \in Procs : StepCheckRateLimit(p)
    \/ \E p \in Procs : StepCheckCompletionCooldown(p)
    \/ \E p \in Procs : StepCalculateRiskScore(p)
    \/ \E p \in Procs : StepAnalyzeUserActivity(p)
    \/ \E p \in Procs : StepFlagUserForReview(p)
    \/ \E p \in Procs : CallerHonours(p)
    \/ \E d \in TickSteps : Tick(d)

SpecRace == Init /\ [][NextRace]_vars

(* ====================================================================== *)
(* Properties                                                              *)
(* ====================================================================== *)
Gate == returned.op = "checkForFraud"

LiveFlags(u) == {e \in redis : e.key = FlagKey(u) /\ e.expiresAt > now}

CompletedOf(u) == {r \in ledger : r.userId = u /\ r.status = "completed"}

(* C1: an event whose externalTransactionId was in the ledger with a       *)
(* non-failed status when checkForFraud was called gets action = block and *)
(* isFraudulent = TRUE, whatever the other checks found.                   *)
C1_DuplicateIdBlocks ==
    (Gate /\ returned.existed) =>
        (returned.value.action = "block" /\ returned.value.isFraudulent)

(* the replayed id is the only signal: no rate-limit or cooldown reason    *)
C1_Witness ==
    /\ Gate
    /\ returned.existed
    /\ returned.value.reasons = <<"Transaction ID already exists">>
    /\ returned.value.action = "block"

(* C2: of two concurrent checkForFraud calls for the same                  *)
(* externalTransactionId at most one gets isDuplicate = FALSE.             *)
PassedDuplicateCheck(p) ==
    /\ call[p].pc \notin {"idle", "checkDuplicate"}
    /\ ~call[p].isDuplicate

C2_AtMostOnePasses ==
    \A p \in Procs, q \in Procs :
        (/\ p # q
         /\ call[p].externalTransactionId = call[q].externalTransactionId
         /\ call[p].userId = call[q].userId
         /\ PassedDuplicateCheck(p))
        => ~PassedDuplicateCheck(q)

(* C3: with one delivery at a time and the caller honouring the action, no *)
(* user has more than 20 completed records in any one-hour window nor more *)
(* than 100 in any 24-hour window.                                         *)
C3_RateCeilings ==
    \A u \in Users : \A r \in CompletedOf(u) :
        /\ Cardinality({q \in CompletedOf(u) :
                           /\ q.createdAt >= r.createdAt
                           /\ q.createdAt < r.createdAt + HOUR}) <= 20
        /\ Cardinality({q \in CompletedOf(u) :
                           /\ q.createdAt >= r.createdAt
                           /\ q.createdAt < r.createdAt + DAY}) <= 100

(* C4: with one delivery at a time and the caller honouring the action, no *)
(* user has two completed records created less than 30 seconds apart.      *)
C4_CooldownEnforced ==
    \A u \in Users : \A r \in CompletedOf(u), q \in CompletedOf(u) :
        (r # q /\ r.createdAt <= q.createdAt) => q.createdAt - r.createdAt >= 30 * SECOND

(* C5: the riskScore checkForFraud returns is in [0,100].                  *)
C5_ScoreInRange ==
    Gate => (returned.value.riskScore >= 0 /\ returned.value.riskScore <= 100)

(* C6: the returned action is decided by the returned riskScore alone:     *)
(* block iff >= 70, flag iff in [40,70), allow iff < 40, and isFraudulent  *)
(* iff block.                                                              *)
C6_ActionFromScore ==
    Gate =>
        LET v == returned.value
        IN  /\ (v.action = "block") <=> (v.riskScore >= 70)
            /\ (v.action = "flag") <=> (v.riskScore >= 40 /\ v.riskScore < 70)
            /\ (v.action = "allow") <=> (v.riskScore < 40)
            /\ v.isFraudulent <=> (v.action = "block")

(* a score exactly on the medium threshold                                 *)
C6_Witness ==
    /\ Gate
    /\ returned.value.riskScore = 40
    /\ returned.value.action = "flag"
    /\ ~returned.value.isFraudulent

(* C7: whenever checkForFraud returns action = block for user u, a live    *)
(* flag of u is in the flag store at the moment the call returns.          *)
C7_BlockLeavesFlag ==
    (Gate /\ returned.value.action = "block") =>
        isUserFlagged(redis, now, returned.userId)

(* C8: checkForFraud changes nothing but the flag of its own user, and     *)
(* writes that flag iff its action is block: the ledger and every other    *)
(* entry of the store are unchanged by each of its steps, the store is     *)
(* unchanged when it returns allow or flag, and when it returns block the  *)
(* store holds the flag that call wrote.                                   *)
GateStep(p) ==
    \/ StepCheckDuplicate(p)
    \/ StepCheckRateLimit(p)
    \/ StepCheckCompletionCooldown(p)
    \/ StepCalculateRiskScore(p)
    \/ StepAnalyzeUserActivity(p)
    \/ StepFlagUserForReview(p)

OwnFlag(c, t) ==
    [key |-> FlagKey(c.userId),
     value |-> JSONstringify([userId |-> c.userId, reason |-> Join(c.reasons, ", "),
                              flaggedAt |-> t]),
     expiresAt |-> t + 7 * DAY]

C8_OnlyOwnFlagOnBlock ==
    [][\A p \in Procs :
          GateStep(p) =>
              /\ ledger' = ledger
              /\ {e \in redis' : e.key # FlagKey(call[p].userId)}
                    = {e \in redis : e.key # FlagKey(call[p].userId)}
              /\ (call'[p].pc = "returned" /\ call'[p].action = "block")
                    => OwnFlag(call'[p], now) \in redis'
              /\ ~(call'[p].pc = "returned" /\ call'[p].action = "block")
                    => redis' = redis]_vars

(* C9: a flagUserForReview call for a user who already has a live flag     *)
(* leaves exactly one live flag for that user, carrying the reason and     *)
(* time of this latest call and expiring 7 days after it.                  *)
C9_LatestFlagWins ==
    [][\A u \in Users, reason \in AdminReasons :
          (FlagUserForReview(u, reason) /\ isUserFlagged(redis, now, u)) =>
              /\ Cardinality({e \in redis' : e.key = FlagKey(u)}) = 1
              /\ \A e \in redis' :
                    e.key = FlagKey(u) =>
                        /\ JSONparse(e.value) =
                              [userId |-> u, reason |-> reason, flaggedAt |-> now]
                        /\ e.expiresAt = now + 7 * DAY]_vars

Redeliver ==
    /\ returned.op = "checkForFraud"
    /\ returned.proc = 1
    /\ call[1].pc = "returned"
    /\ call[2].pc = "idle"
    /\ Begin(2, call[1].userId, call[1].externalTransactionId, call[1].amount,
             call[1].providerId)

NextRetry ==
    \/ \E e \in Events :
          /\ calls < MaxCalls
          /\ call[2].pc = "idle"
          /\ Begin(1, e[1], e[2], e[3], e[4])
    \/ Redeliver
    \/ \E p \in Procs : StepCheckDuplicate(p)
    \/ \E p \in Procs : StepCheckRateLimit(p)
    \/ \E p \in Procs : StepCheckCompletionCooldown(p)
    \/ \E p \in Procs : StepCalculateRiskScore(p)
    \/ \E p \in Procs : StepAnalyzeUserActivity(p)
    \/ \E p \in Procs : StepFlagUserForReview(p)
    \/ CallerHonours(2)
    \/ call[2].pc = "idle" /\ CallerHonours(1)
    \/ \E d \in TickSteps : (\A p \in Procs : call[p].pc = "idle") /\ Tick(d)

SpecRetry == Init /\ [][NextRetry]_vars

(* C11: a retry of checkForFraud with the same arguments against the same *)
(* ledger, user record and clock returns the same riskScore, action,      *)
(* isFraudulent and reasons (same order), and the retry changes nothing    *)
(* but the flag of its own user, and that only when its action is block.   *)
BothReturned ==
    /\ call[1].pc = "returned"
    /\ call[2].pc = "returned"
    /\ call[1].userId = call[2].userId
    /\ call[1].externalTransactionId = call[2].externalTransactionId
    /\ call[1].amount = call[2].amount
    /\ call[1].providerId = call[2].providerId

C11_RetryIdempotent ==
    /\ [](BothReturned => Result(call[1]) = Result(call[2]))
    /\ [][GateStep(2) =>
             /\ ledger' = ledger
             /\ redis' # redis =>
                   /\ call'[2].action = "block"
                   /\ redis' = {e \in redis : e.key # FlagKey(call[2].userId)}
                                  \cup {OwnFlag(call'[2], now)}]_vars

(* a blocked event retried: both invocations returned block and the flag  *)
(* is the one the retry wrote                                              *)
C11_Witness ==
    /\ BothReturned
    /\ call[2].action = "block"
    /\ returned.op = "checkForFraud"
    /\ returned.proc = 2
    /\ OwnFlag(call[2], now) \in redis

(* ====================================================================== *)
(* Ledger outages: any awaited ledger or user query of checkForFraud may   *)
(* reject. checkForFraud and its checks have no try/catch, so the          *)
(* rejection leaves checkForFraud at the await where it happened.          *)
(* ====================================================================== *)
MaxOutageCalls == 2

LedgerReads ==
    {"checkDuplicate", "checkRateLimit", "checkCompletionCooldown",
     "calculateRiskScore", "analyzeUserActivity"}

FailClosedChecks == {"checkDuplicate", "checkRateLimit", "checkCompletionCooldown"}

FailOpenChecks == {"calculateRiskScore", "analyzeUserActivity"}

(* a failing check treated as a check that passed                          *)
OnLedgerError_Swallow(c) ==
    [c EXCEPT !.failed = c.pc,
              !.pc = CASE c.pc = "checkDuplicate" -> "checkRateLimit"
                       [] c.pc = "checkRateLimit" -> "checkCompletionCooldown"
                       [] c.pc = "checkCompletionCooldown" -> "calculateRiskScore"
                       [] OTHER -> "rejected"]

OnLedgerError(c) ==
    [c EXCEPT !.failed = c.pc, !.pc = "rejected"]

FraudThrow(p, c) ==
    [op |-> "checkForFraud rejected", proc |-> p, userId |-> c.userId,
     externalTransactionId |-> c.externalTransactionId, failed |-> c.failed]

FailLedgerQuery(p) ==
    /\ call[p].pc \in LedgerReads
    /\ LET c == OnLedgerError(call[p])
       IN  /\ call' = [call EXCEPT ![p] = c]
           /\ returned' = IF c.pc = "rejected" THEN FraudThrow(p, c) ELSE NoReturn
    /\ UNCHANGED <<now, ledger, redis, ticks, calls>>

(* the caller of a rejected checkForFraud credits nothing                  *)
CallerOnError(p) ==
    /\ call[p].pc = "rejected"
    /\ call' = [call EXCEPT ![p] = IdleCall]
    /\ returned' = NoReturn
    /\ UNCHANGED <<now, ledger, redis, ticks, calls>>

(* u1, three days old: 35 completions 20 s apart, the newest 40 s ago      *)
NewAccountLedger ==
    {Rec(300 + i, "u1", IF i % 2 = 0 THEN "p1" ELSE "p2", 250, "completed",
         T0 - 40 * SECOND - (35 - i) * 20 * SECOND) : i \in 1..35}

InitOutage ==
    /\ now = T0
    /\ ledger \in {EmptyLedger, BusyHourLedger, NewAccountLedger}
    /\ redis = {}
    /\ call = [p \in Procs |-> IdleCall]
    /\ returned = NoReturn
    /\ ticks = 0
    /\ calls = 0

NextOutage ==
    \/ \E e \in Events : calls < MaxOutageCalls /\ Begin(1, e[1], e[2], e[3], e[4])
    \/ StepCheckDuplicate(1)
    \/ StepCheckRateLimit(1)
    \/ StepCheckCompletionCooldown(1)
    \/ StepCalculateRiskScore(1)
    \/ StepAnalyzeUserActivity(1)
    \/ StepFlagUserForReview(1)
    \/ FailLedgerQuery(1)
    \/ CallerHonours(1)
    \/ CallerOnError(1)
    \/ \E d \in TickSteps : Tick(d)

SpecOutage == InitOutage /\ [][NextOutage]_vars

(* C12: when a ledger query of the duplicate, rate-limit or cooldown check *)
(* fails, checkForFraud never comes back with a decision whose action is   *)
(* allow, and the event is not credited.                                   *)
C12_FailClosed ==
    /\ [](\A p \in Procs :
             call[p].failed \in FailClosedChecks =>
                 /\ call[p].pc \notin {"flagUserForReview", "returned"}
                 /\ ~(returned.op = "checkForFraud" /\ returned.proc = p))
    /\ [][(\E p \in Procs : call[p].failed \in FailClosedChecks) =>
             ledger' = ledger]_vars

(* the rate-limit count has failed and checkForFraud has rejected          *)
C12_Witness ==
    /\ returned.op = "checkForFraud rejected"
    /\ returned.failed = "checkRateLimit"
    /\ call[1].pc = "rejected"

(* C13: a failing query of the activity analyzer or the risk scorer, with  *)
(* the three checks before it succeeding, still lets checkForFraud return  *)
(* a decision: the outage does not fail the call.                          *)
C13_AnalyzerFailOpen ==
    \A p \in Procs : call[p].failed \in FailOpenChecks => call[p].pc # "rejected"

(* C14: the first delivery of an event (user U, provider P, amount 500)    *)
(* for a user without history gets action = allow; its replay one second   *)
(* after it was credited gets action = block with the reason               *)
(* 'Transaction ID already exists'.                                        *)
FirstDelivery ==
    /\ Gate
    /\ call[returned.proc].amount = 500
    /\ ~returned.existed
    /\ ~\E r \in ledger : r.userId = returned.userId

ReplayAfterOneSecond ==
    /\ Gate
    /\ call[returned.proc].amount = 500
    /\ \E r \in ledger :
          /\ r.externalTransactionId = returned.externalTransactionId
          /\ r.userId = returned.userId
          /\ r.status = "completed"
          /\ r.createdAt = now - 1 * SECOND

C14_ReplayScenario ==
    /\ FirstDelivery => returned.value.action = "allow"
    /\ ReplayAfterOneSecond =>
          /\ returned.value.action = "block"
          /\ \E i \in DOMAIN returned.value.reasons :
                returned.value.reasons[i] = "Transaction ID already exists"

(* C15: an account younger than 7 days with 35 completions in the last     *)
(* 24 h, 20 s apart on average, gets riskScore >= 70 and action = block,   *)
(* and the flag the call persists has a reason that mentions both the      *)
(* new-account-with-high-activity pattern and the fast-completion pattern. *)
(* The reason strings of the service, by what they speak of: the           *)
(* account-age term of calculateRiskScore adds to the score and pushes no  *)
(* string.                                                                  *)
FastCompletionReasons == {"Unusually fast completions (<60s avg)"}

NewAccountReasons == {}

Mentions(reasons, topic) == \E i \in DOMAIN reasons : reasons[i] \in topic

NewAccountScenario ==
    /\ Gate
    /\ now - UserCreatedAt[returned.userId] < 7 * DAY
    /\ LET activity == analyzeUserActivity(ledger, now, returned.userId)
       IN  /\ activity.completionsLast24h = 35
           /\ activity.totalTimeBetween = 20 * SECOND * activity.completionPairs
    /\ CompletedOf(returned.userId) = {r \in ledger : r.userId = returned.userId}

C15_NewAccountScenario ==
    NewAccountScenario =>
        /\ returned.value.riskScore >= HIGH_RISK_THRESHOLD
        /\ returned.value.action = "block"
        /\ OwnFlag(call[returned.proc], now) \in redis =>
              /\ Mentions(returned.value.reasons, NewAccountReasons)
              /\ Mentions(returned.value.reasons, FastCompletionReasons)

(* ====================================================================== *)
(* trackIPAddress: the IP record lives in the expiring store under         *)
(* fraud:ip:<ipAddress>; the call reads it, updates its copy and writes    *)
(* it back with a fresh 24 h time to live.                                 *)
(* ====================================================================== *)
IP_TTL == 86400

MAX_USERS_PER_IP == 5

MAX_REQUESTS_PER_IP == 100

MaxTracks == 7

MaxRacingTracks == 3

IPs == {"10.0.0.1"}

IPUser(i) == "u" \o ToString(i)

IPKey(ip) == <<"fraud:ip", ip>>

(* JSON.stringify / JSON.parse of the IP document                          *)
IPstringify(obj) == <<"users", obj.users, "count", obj.count, "lastSeen", obj.lastSeen>>
IPparse(str) == [users |-> str[2], count |-> str[4], lastSeen |-> str[6]]

(* data ? JSON.parse(data) : { users: [], count: 0 }                       *)
LoadIPData(data) ==
    IF data = Null THEN [users |-> <<>>, count |-> 0, lastSeen |-> 0] ELSE IPparse(data)

Includes(seq, x) == \E i \in DOMAIN seq : seq[i] = x

UpdateIPData(ipData, u, t) ==
    [users |-> IF Includes(ipData.users, u) THEN ipData.users ELSE Append(ipData.users, u),
     count |-> ipData.count + 1,
     lastSeen |-> t]

NotSuspicious == [suspicious |-> FALSE, reason |-> Null]

(* the users check tripping one user early                                 *)
IPVerdict_Early(ipData) ==
    IF Len(ipData.users) >= MAX_USERS_PER_IP
    THEN [suspicious |-> TRUE,
          reason |-> <<"Multiple users (", Len(ipData.users), ") from same IP">>]
    ELSE IF ipData.count > MAX_REQUESTS_PER_IP
    THEN [suspicious |-> TRUE,
          reason |-> <<"High request count (", ipData.count, ") from IP">>]
    ELSE NotSuspicious

IPVerdict(ipData) ==
    IF Len(ipData.users) > MAX_USERS_PER_IP
    THEN [suspicious |-> TRUE,
          reason |-> <<"Multiple users (", Len(ipData.users), ") from same IP">>]
    ELSE IF ipData.count > MAX_REQUESTS_PER_IP
    THEN [suspicious |-> TRUE,
          reason |-> <<"High request count (", ipData.count, ") from IP">>]
    ELSE NotSuspicious

TrackReturn(p, c, value, ok) ==
    [op |-> "trackIPAddress", proc |-> p, ipAddress |-> c.ipAddress, userId |-> c.userId,
     value |-> value, stored |-> ok]

(* the stored record of an address, Null when there is none                *)
IPRecord(R, t, ip) ==
    LET data == redisGet(R, t, IPKey(ip))
    IN  IF data = Null THEN Null ELSE IPparse(data)

BeginTrack(p, ip, u) ==
    /\ call[p].pc = "idle"
    /\ calls' = calls + 1
    /\ call' = [call EXCEPT ![p] = [pc |-> "trackGet", ipAddress |-> ip, userId |-> u,
                                    ipData |-> Null]]
    /\ returned' = NoReturn
    /\ UNCHANGED <<now, ledger, redis, ticks>>

(* await redis.get(key) and the update of the local copy; a throwing get   *)
(* lands in the catch, which returns { suspicious: false }                 *)
TrackGet(p) ==
    /\ call[p].pc = "trackGet"
    /\ LET c == call[p]
       IN  \E ok \in BOOLEAN :
              IF ok
              THEN /\ call' = [call EXCEPT ![p] =
                                 [c EXCEPT !.pc = "trackSetex",
                                           !.ipData = UpdateIPData(
                                               LoadIPData(redisGet(redis, now, IPKey(c.ipAddress))),
                                               c.userId, now)]]
                   /\ returned' = NoReturn
              ELSE /\ call' = [call EXCEPT ![p] = IdleCall]
                   /\ returned' = TrackReturn(p, c, NotSuspicious, FALSE)
    /\ UNCHANGED <<now, ledger, redis, ticks, calls>>

(* await redis.setex(key, 86400, JSON.stringify(ipData)), the verdict and  *)
(* the return                                                              *)
TrackSetex(p) ==
    /\ call[p].pc = "trackSetex"
    /\ LET c == call[p]
       IN  \E ok \in BOOLEAN :
              IF ok
              THEN /\ redis' = redisSetex(redis, now, IPKey(c.ipAddress), IP_TTL,
                                          IPstringify(c.ipData))
                   /\ returned' = TrackReturn(p, c, IPVerdict(c.ipData), TRUE)
              ELSE /\ redis' = redis
                   /\ returned' = TrackReturn(p, c, NotSuspicious, FALSE)
    /\ call' = [call EXCEPT ![p] = IdleCall]
    /\ UNCHANGED <<now, ledger, ticks, calls>>

UsersHeld(ip) ==
    LET rec == IPRecord(redis, now, ip)
    IN  IF rec = Null THEN 0 ELSE Cardinality({rec.users[i] : i \in DOMAIN rec.users})

InitIP ==
    /\ now = T0
    /\ ledger = EmptyLedger
    /\ redis = {}
    /\ call = [p \in Procs |-> IdleCall]
    /\ returned = NoReturn
    /\ ticks = 0
    /\ calls = 0

(* Calls one after another; the caller is a user already on the record or  *)
(* the next new one.                                                       *)
NextIP ==
    \/ \E ip \in IPs : \E i \in 1..(UsersHeld(ip) + 1) :
          calls < MaxTracks /\ BeginTrack(1, ip, IPUser(i))
    \/ TrackGet(1)
    \/ TrackSetex(1)
    \/ \E d \in TickSteps : Tick(d)
    \/ LongTick

SpecIP == InitIP /\ [][NextIP]_vars

IsMultipleUsers(value) ==
    /\ value.suspicious
    /\ value.reason # Null
    /\ value.reason[1] = "Multiple users ("

(* C16 as stated: a trackIPAddress call, among at most 100 sequential      *)
(* calls on one address within 24 hours, returns suspicious with a         *)
(* 'Multiple users' reason iff the record holds more than 5 distinct users *)
(* after the call.                                                         *)
C16_MultipleUsersIff ==
    (returned.op = "trackIPAddress" /\ now - T0 < DAY /\ calls <= 100) =>
        (IsMultipleUsers(returned.value) <=> UsersHeld(returned.ipAddress) > 5)

(* C16: for sequential trackIPAddress calls on one address, a call whose   *)
(* store read and write both succeed returns suspicious with a 'Multiple   *)
(* users' reason iff the record holds more than 5 distinct users after the *)
(* call; a call whose read or write fails returns suspicious = false.      *)
C16_MultipleUsersIffStored ==
    returned.op = "trackIPAddress" =>
        /\ returned.stored =>
              (IsMultipleUsers(returned.value) <=> UsersHeld(returned.ipAddress) > 5)
        /\ ~returned.stored => ~returned.value.suspicious

(* the first call of the sixth distinct user, stored and reported          *)
C16_Witness ==
    /\ returned.op = "trackIPAddress"
    /\ returned.stored
    /\ IsMultipleUsers(returned.value)
    /\ UsersHeld(returned.ipAddress) = 6
    /\ IPRecord(redis, now, returned.ipAddress).users[6] = returned.userId

(* ====================================================================== *)
(* Concurrent trackIPAddress calls: the other call may run between the     *)
(* read and the write.                                                     *)
(* ====================================================================== *)
BusyIPRecord ==
    [key |-> IPKey("10.0.0.1"),
     value |-> IPstringify([users |-> <<IPUser(1), IPUser(2)>>, count |-> 99,
                            lastSeen |-> T0 - HOUR]),
     expiresAt |-> T0 - HOUR + IP_TTL * 1000]

InitIPRace ==
    /\ now = T0
    /\ ledger = EmptyLedger
    /\ redis \in {{}, {BusyIPRecord}}
    /\ call = [p \in Procs |-> IdleCall]
    /\ returned = NoReturn
    /\ ticks = 0
    /\ calls = 0

NextIPRace ==
    \/ \E p \in Procs, ip \in IPs, i \in 1..3 :
          calls < MaxRacingTracks /\ BeginTrack(p, ip, IPUser(i))
    \/ \E p \in Procs : TrackGet(p)
    \/ \E p \in Procs : TrackSetex(p)
    \/ \E d \in TickSteps : Tick(d)
    \/ LongTick

SpecIPRace == InitIPRace /\ [][NextIPRace]_vars

NoDuplicates(seq) == \A i, j \in DOMAIN seq : seq[i] = seq[j] => i = j

(* C17: in every interleaving of concurrent trackIPAddress calls on one    *)
(* address, the stored record's count never decreases while the record is  *)
(* alive and its users list never holds the same userId twice.             *)
C17_CountMonotoneUsersSet ==
    /\ [](\A ip \in IPs :
             IPRecord(redis, now, ip) # Null => NoDuplicates(IPRecord(redis, now, ip).users))
    /\ [][\A ip \in IPs :
             (IPRecord(redis, now, ip) # Null /\ IPRecord(redis', now', ip) # Null) =>
                 IPRecord(redis', now', ip).count >= IPRecord(redis, now, ip).count]_vars

(* ====================================================================== *)
(* checkRateLimit and checkCompletionCooldown called on their own, and a   *)
(* client that waits retryAfter seconds and asks again.                    *)
(* ====================================================================== *)
MaxChecks == 3

(* u1: 19 completed, one pending and one failed record in the last hour,   *)
(* the newest completed one 29.5 s ago                                     *)
NearLimitLedger ==
    { Rec(400 + i, "u1", "p1", 250, "completed", T0 - 29500 - (19 - i) * 120 * SECOND)
          : i \in 1..19 }
    \cup { Rec(420, "u1", "p1", 250, "pending", T0 - 5 * SECOND),
           Rec(421, "u1", "p2", 250, "failed", T0 - 50 * SECOND) }

(* u1: 100 completed records 170 s apart, 21 of them in the last hour;     *)
(* u2: 100 completed records 10 min apart, 6 of them in the last hour      *)
FullDayLedger ==
    { Rec(500 + i, "u1", "p1", 250, "completed", T0 - i * 170 * SECOND) : i \in 1..100 }
    \cup { Rec(700 + i, "u2", "p2", 250, "completed", T0 - i * 600 * SECOND) : i \in 1..100 }

(* u2's last record was stamped by a host whose clock runs 5 s ahead       *)
SkewedLedger ==
    { Rec(801, "u2", "p1", 250, "completed", T0 + 5 * SECOND),
      Rec(802, "u1", "p1", 500, "completed", T0 - 10 * SECOND) }

CheckLedgers ==
    {EmptyLedger, MixedLedger, BusyHourLedger, NearLimitLedger, FullDayLedger, SkewedLedger}

InitChecks ==
    /\ now = T0
    /\ ledger \in CheckLedgers
    /\ redis = {}
    /\ call = [p \in Procs |-> IdleCall]
    /\ returned = NoReturn
    /\ ticks = 0
    /\ calls = 0

CheckReturn(op, u, t, value, retryOf) ==
    [op |-> op, userId |-> u, at |-> t, value |-> value, retryOf |-> retryOf]

CheckRateLimit(u) ==
    /\ calls < MaxChecks
    /\ calls' = calls + 1
    /\ returned' = CheckReturn("checkRateLimit", u, now, checkRateLimit(ledger, now, u), Null)
    /\ UNCHANGED <<now, ledger, redis, call, ticks>>

CheckCompletionCooldown(u) ==
    /\ calls < MaxChecks
    /\ calls' = calls + 1
    /\ returned' = CheckReturn("checkCompletionCooldown", u, now,
                               checkCompletionCooldown(ledger, now, u), Null)
    /\ UNCHANGED <<now, ledger, redis, call, ticks>>

(* the client of a refused check waits retryAfter seconds and calls the    *)
(* same check again                                                        *)
RetryAfter ==
    /\ returned.op \in {"checkRateLimit", "checkCompletionCooldown"}
    /\ ~returned.value.allowed
    /\ calls < MaxChecks
    /\ calls' = calls + 1
    /\ now' = now + returned.value.retryAfter * 1000
    /\ returned' = CheckReturn(returned.op, returned.userId, now',
                               IF returned.op = "checkRateLimit"
                               THEN checkRateLimit(ledger, now', returned.userId)
                               ELSE checkCompletionCooldown(ledger, now', returned.userId),
                               [value |-> returned.value, at |-> returned.at])
    /\ UNCHANGED <<ledger, redis, call, ticks>>

(* a completion of u is credited                                           *)
RecordCompletion(u) ==
    /\ calls < MaxChecks
    /\ calls' = calls + 1
    /\ ledger' = ledger \cup {Rec(900 + calls, u, "p1", 250, "completed", now)}
    /\ returned' = NoReturn
    /\ UNCHANGED <<now, redis, call, ticks>>

NextChecks ==
    \/ \E u \in Users : CheckRateLimit(u)
    \/ \E u \in Users : CheckCompletionCooldown(u)
    \/ RetryAfter
    \/ \E u \in Users : RecordCompletion(u)
    \/ \E d \in TickSteps : Tick(d)

SpecChecks == InitChecks /\ [][NextChecks]_vars

CompletedSince(u, since) == {r \in CompletedOf(u) : r.createdAt >= since}

(* C18: checkRateLimit(u) counts only u's completed records: allowed =     *)
(* false with retryAfter 3600 iff at least 20 of them were created in the  *)
(* last hour; otherwise allowed = false with retryAfter 86400 iff at least *)
(* 100 were created in the last 24 hours; otherwise allowed = true with no *)
(* retryAfter; pending and failed records never change the result.         *)
C18_RateLimitContract ==
    returned.op = "checkRateLimit" =>
        LET v == returned.value
            hourly == Cardinality(CompletedSince(returned.userId, now - HOUR))
            daily == Cardinality(CompletedSince(returned.userId, now - DAY))
        IN  /\ (~v.allowed /\ v.retryAfter = 3600) <=> hourly >= 20
            /\ hourly < 20 => ((~v.allowed /\ v.retryAfter = 86400) <=> daily >= 100)
            /\ (hourly < 20 /\ daily < 100) => (v.allowed /\ v.retryAfter = 0)
            /\ v = checkRateLimit({r \in ledger : r.status = "completed"}, now,
                                  returned.userId)

(* both ceilings breached: the hourly result is the one returned           *)
C18_Witness ==
    /\ returned.op = "checkRateLimit"
    /\ Cardinality(CompletedSince(returned.userId, now - HOUR)) >= 20
    /\ Cardinality(CompletedSince(returned.userId, now - DAY)) >= 100
    /\ ~returned.value.allowed
    /\ returned.value.retryAfter = 3600

(* C19: checkCompletionCooldown(u) returns allowed = true when u has no    *)
(* completed record or the newest is at least 30 s old, and otherwise      *)
(* allowed = false with retryAfter = ceil(30 - elapsed); whenever allowed  *)
(* is false, retryAfter is in (0, 30].                                     *)
C19_CooldownRetryAfterRange ==
    returned.op = "checkCompletionCooldown" =>
        LET v == returned.value
            done == CompletedOf(returned.userId)
            elapsedMs == now - (CHOOSE r \in done :
                                   \A q \in done : q.createdAt <= r.createdAt).createdAt
        IN  /\ v.allowed <=> (done = {} \/ elapsedMs >= 30 * SECOND)
            /\ ~v.allowed =>
                  /\ v.retryAfter = CeilDiv(30 * SECOND - elapsedMs, SECOND)
                  /\ v.retryAfter > 0
                  /\ v.retryAfter <= 30

(* C20 as stated: a check refused with retryAfter = r at time t, repeated  *)
(* at t + r with no record of the user added or changed, is allowed.       *)
C20_RetryAfterSufficient ==
    (returned.op \in {"checkRateLimit", "checkCompletionCooldown"} /\ returned.retryOf # Null)
        => returned.value.allowed

(* C20: a cooldown refused with retryAfter = r at t is allowed at t + r;   *)
(* a rate limit refused with retryAfter = r at t is allowed at t + r when  *)
(* no completed record of the user is dated at or after t and, for the     *)
(* hourly refusal, fewer than 100 completed records of the user fall in    *)
(* the 24 hours before t + r; records unchanged in between.                *)
C20_RetryAfterSufficientWithinDay ==
    /\ (returned.op = "checkCompletionCooldown" /\ returned.retryOf # Null)
          => returned.value.allowed
    /\ ( /\ returned.op = "checkRateLimit"
         /\ returned.retryOf # Null
         /\ CompletedSince(returned.userId, returned.retryOf.at) = {}
         /\ returned.retryOf.value.retryAfter = 3600 =>
               Cardinality(CompletedSince(returned.userId, now - DAY)) < 100 )
          => returned.value.allowed

(* an hourly refusal answered by waiting the hour                          *)
C20_Witness ==
    /\ returned.op = "checkRateLimit"
    /\ returned.retryOf # Null
    /\ returned.retryOf.value.retryAfter = 3600
    /\ now = returned.retryOf.at + 3600 * SECOND
    /\ returned.value.allowed

(* ====================================================================== *)
(* The score as a function of the signals: what the three checks found,    *)
(* what the analyzer returned and what the user record says.               *)
(* ====================================================================== *)
SignalHours == {0, 11, 16}

SignalDays == {1, 3, 21, 31}

SignalAvgs == {20 * SECOND, 45 * SECOND, 90 * SECOND}

SignalUsers ==
    {[found |-> FALSE, createdAt |-> 0],
     [found |-> TRUE, createdAt |-> T0 - 3 * DAY],
     [found |-> TRUE, createdAt |-> T0 - 8 * DAY]}

(* an analyzer result for h records in the last hour among d in the last   *)
(* 24 h, avg ms apart, from uniq providers, round of them of round amount  *)
ActivityOf(h, d, avg, uniq, round) ==
    [userId |-> "u1",
     completionsLast24h |-> d,
     completionsLastHour |-> h,
     totalTimeBetween |-> avg * (d - 1),
     completionPairs |-> d - 1,
     uniqueProviders |-> uniq,
     suspiciousPatterns |-> suspiciousPatternsOf(h, d, avg * (d - 1), d - 1, uniq, round)]

(* the signals a set of records can produce                                *)
Producible(h, d, avg, uniq) ==
    /\ h <= d
    /\ uniq <= d
    /\ d = 1 => avg = 20 * SECOND

Activities ==
    {ActivityOf(x[1], x[2], x[3], x[4], x[5] * x[2]) :
        x \in {y \in SignalHours \X SignalDays \X SignalAvgs \X {1, 2} \X {0, 1} :
                  Producible(y[1], y[2], y[3], y[4])}}

Inputs ==
    {[isDuplicate |-> dup, rateLimited |-> rate, cooldown |-> cool,
      activity |-> activity, user |-> user] :
        dup \in BOOLEAN, rate \in BOOLEAN, cool \in BOOLEAN, user \in SignalUsers,
        activity \in Activities}

(* riskScore of checkForFraud for these signals                            *)
scoreOfSignals(s) ==
    AfterRiskScore(
        AfterCooldown(
            AfterRateLimit(
                AfterDuplicate(IdleCall, [isDuplicate |-> s.isDuplicate, reason |-> "duplicate"]),
                [allowed |-> ~s.rateLimited, reason |-> "rate", retryAfter |-> 3600]),
            [allowed |-> ~s.cooldown, reason |-> "cooldown", retryAfter |-> 30]),
        riskScoreOf(s.activity, s.user, T0)).riskScore

ScoreReturn(s, prev) ==
    [op |-> "riskScore", signals |-> s, accountScore |-> riskScoreOf(s.activity, s.user, T0),
     value |-> scoreOfSignals(s), prev |-> prev]

IsNewAccount(user) == user.found /\ T0 - user.createdAt < 7 * DAY

LabelSet(activity) == {activity.suspiciousPatterns[i] : i \in DOMAIN activity.suspiciousPatterns}

(* per signal: -1 when b is less suspicious than a or not comparable,      *)
(* 0 when they agree, 1 when b is more suspicious                          *)
CompareBool(a, b) == IF a = b THEN 0 ELSE IF b THEN 1 ELSE -1

CompareNat(a, b) == IF a = b THEN 0 ELSE IF b > a THEN 1 ELSE -1

CompareSpeed(a, b) ==
    IF a.completionPairs = 0 \/ b.completionPairs = 0
    THEN IF a.completionPairs = b.completionPairs THEN 0 ELSE -1
    ELSE LET x == a.totalTimeBetween * b.completionPairs
             y == b.totalTimeBetween * a.completionPairs
         IN  IF x = y THEN 0 ELSE IF y < x THEN 1 ELSE -1

CompareLabels(a, b) ==
    IF LabelSet(a) = LabelSet(b) THEN 0
    ELSE IF LabelSet(a) \subseteq LabelSet(b) THEN 1 ELSE -1

CompareSignals(a, b) ==
    << CompareBool(a.isDuplicate, b.isDuplicate),
       CompareBool(a.rateLimited, b.rateLimited),
       CompareBool(a.cooldown, b.cooldown),
       CompareNat(a.activity.completionsLastHour, b.activity.completionsLastHour),
       CompareNat(a.activity.completionsLast24h, b.activity.completionsLast24h),
       CompareSpeed(a.activity, b.activity),
       CompareBool(a.activity.uniqueProviders = 1, b.activity.uniqueProviders = 1),
       CompareLabels(a.activity, b.activity),
       CompareBool(IsNewAccount(a.user), IsNewAccount(b.user)) >>

(* b agrees with a on every signal but one, in which it is more suspicious *)
RaisesOneSignal(a, b) ==
    LET cmp == CompareSignals(a, b)
    IN  /\ \A i \in DOMAIN cmp : cmp[i] >= 0
        /\ Cardinality({i \in DOMAIN cmp : cmp[i] = 1}) = 1

InitSignals ==
    /\ now = T0
    /\ ledger = EmptyLedger
    /\ redis = {}
    /\ call = [p \in Procs |-> IdleCall]
    /\ returned = NoReturn
    /\ ticks = 0
    /\ calls = 0

ScoreSignals(s) ==
    /\ returned = NoReturn
    /\ returned' = ScoreReturn(s, Null)
    /\ UNCHANGED <<now, ledger, redis, call, ticks, calls>>

ScoreMoreSuspicious(s) ==
    /\ returned.prev = Null
    /\ RaisesOneSignal(returned.signals, s)
    /\ returned' = ScoreReturn(s, [signals |-> returned.signals, value |-> returned.value])
    /\ UNCHANGED <<now, ledger, redis, call, ticks, calls>>

(* the second input differs from the first in what the checks found, in   *)
(* what the analyzer returned or in the user record                        *)
NextSignals ==
    \/ \E s \in Inputs : ScoreSignals(s)
    \/ \E dup \in BOOLEAN, rate \in BOOLEAN, cool \in BOOLEAN :
          /\ returned.op = "riskScore"
          /\ ScoreMoreSuspicious([returned.signals EXCEPT !.isDuplicate = dup,
                                                          !.rateLimited = rate,
                                                          !.cooldown = cool])
    \/ \E activity \in Activities :
          /\ returned.op = "riskScore"
          /\ ScoreMoreSuspicious([returned.signals EXCEPT !.activity = activity])
    \/ \E user \in SignalUsers :
          /\ returned.op = "riskScore"
          /\ ScoreMoreSuspicious([returned.signals EXCEPT !.user = user])

SpecSignals == InitSignals /\ [][NextSignals]_vars

(* C21: of two inputs that agree on every signal except one, in which the  *)
(* second is more suspicious, the second has a riskScore greater than or   *)
(* equal to the first's; an added suspicious-pattern label never lowers    *)
(* the score.                                                              *)
C21_ScoreMonotone ==
    (returned.op = "riskScore" /\ returned.prev # Null) =>
        returned.value >= returned.prev.value

(* one more label, everything else as before, and a higher score           *)
C21_Witness ==
    /\ returned.op = "riskScore"
    /\ returned.prev # Null
    /\ CompareLabels(returned.prev.signals.activity, returned.signals.activity) = 1
    /\ returned.value > returned.prev.value

Points(condition, points) == IF condition THEN points ELSE 0

(* the sum S of the scoring table, from the signals alone; the average is  *)
(* 0 when fewer than two records exist                                     *)
TableSum(activity, user) ==
    LET h == activity.completionsLastHour
        d == activity.completionsLast24h
        below30 == IF d < 2 THEN TRUE
                   ELSE activity.totalTimeBetween < 30 * SECOND * activity.completionPairs
        below60 == IF d < 2 THEN TRUE
                   ELSE activity.totalTimeBetween < 60 * SECOND * activity.completionPairs
    IN  Points(h > 15, 30) + Points(h > 10 /\ h <= 15, 15)
        + Points(below30, 40) + Points(below60 /\ ~below30, 20)
        + Points(activity.uniqueProviders = 1 /\ d > 20, 25)
        + 10 * Cardinality(LabelSet(activity))
        + Points(IsNewAccount(user) /\ d > 30, 20)

(* C26: calculateRiskScore equals min(100, S), S being the sum of 30 if    *)
(* completionsLastHour > 15 else 15 if > 10, 40 if avgCompletionTime < 30  *)
(* else 20 if < 60, 25 if uniqueProviders = 1 and completionsLast24h > 20, *)
(* 10 per label, and 20 if the account is younger than 7 days and          *)
(* completionsLast24h > 30; it lies in 0..100, and with no user record it  *)
(* is the score of the same activity without the account-age term.         *)
C26_RiskScoreTable ==
    returned.op = "riskScore" =>
        LET activity == returned.signals.activity
            user == returned.signals.user
            S == TableSum(activity, user)
        IN  /\ returned.accountScore = (IF S < 100 THEN S ELSE 100)
            /\ returned.accountScore \in 0..100
            /\ ~user.found =>
                  returned.accountScore =
                      (LET old == TableSum(activity, [found |-> TRUE, createdAt |-> T0 - 8 * DAY])
                       IN  IF old < 100 THEN old ELSE 100)

(* a sum above 100 returned as 100, for a user with no record              *)
C26_Witness ==
    /\ returned.op = "riskScore"
    /\ ~returned.signals.user.found
    /\ returned.signals.activity.completionsLast24h > 30
    /\ TableSum(returned.signals.activity, returned.signals.user) > 100
    /\ returned.accountScore = 100

(* ====================================================================== *)
(* generateFraudReport                                                     *)
(* ====================================================================== *)
MaxReports == 2

SUSPICIOUS_COMPLETIONS == 50

TOP_USERS == 10

(* twelve users, all active in the last hour: u1 has 51 records, u2 has    *)
(* 50, u3..u9 have 9 down to 3, u10 and u11 have 2 each, u12 has 1; every  *)
(* third record of u3 failed; u12 also has a record older than seven days  *)
ReportCount(i) ==
    CASE i = 1 -> 51
      [] i = 2 -> 50
      [] i \in 3..9 -> 12 - i
      [] i \in {10, 11} -> 2
      [] OTHER -> 1

ReportLedger ==
    UNION {{Rec(1000 + 100 * i + k, IPUser(i), IF i % 2 = 0 THEN "p2" ELSE "p1", 250,
                IF i = 3 /\ k % 3 = 0 THEN "failed" ELSE "completed",
                T0 - k * 60 * SECOND - i * SECOND) : k \in 1..ReportCount(i)} : i \in 1..12}
    \cup {Rec(999, IPUser(12), "p1", 250, "completed", T0 - 7 * DAY - HOUR)}

ReportLedgers == {ReportLedger, MixedLedger, BusyHourLedger}

(* the startDate and endDate arguments; NoDate is the argument left out    *)
NoDate == 0

ReportStarts == {NoDate, T0 - 10 * 60 * SECOND - 1 * SECOND}

ReportEnds == {NoDate, T0 - 2 * 60 * SECOND - 10 * SECOND}

TransactionsIn(L, start, end) == {r \in L : r.createdAt >= start /\ r.createdAt <= end}

(* the Map built by the forEach: key -> number of transactions             *)
userActivityOf(transactions) ==
    [u \in {r.userId : r \in transactions} |->
        Cardinality({r \in transactions : r.userId = u})]

providerActivityOf(transactions) ==
    [p \in {r.providerId : r \in transactions} |->
        Cardinality({r \in transactions : r.providerId = p})]

(* an entry list that includes the users with exactly 50 records           *)
suspiciousUsersOf_Inclusive(userActivity) ==
    {[userId |-> u, completions |-> userActivity[u]] :
        u \in {x \in DOMAIN userActivity : userActivity[x] >= SUSPICIOUS_COMPLETIONS}}

(* filter(count > 50); the order of the entries is the Map's               *)
suspiciousUsersOf(userActivity) ==
    {[userId |-> u, completions |-> userActivity[u]] :
        u \in {x \in DOMAIN userActivity : userActivity[x] > SUSPICIOUS_COMPLETIONS}}

(* the results sort((a, b) => b[1] - a[1]) can give: entries of equal      *)
(* count keep the Map's order, which is the order find() returned the      *)
(* records in                                                              *)
RECURSIVE SortedEntries(_, _)
SortedEntries(userActivity, S) ==
    IF S = {} THEN {<<>>}
    ELSE UNION {{<<[userId |-> u, completions |-> userActivity[u]]>> \o rest :
                    rest \in SortedEntries(userActivity, S \ {u})} :
                u \in {x \in S : \A y \in S : userActivity[y] <= userActivity[x]}}

Slice(seq, n) == SubSeq(seq, 1, Min(n, Len(seq)))

generateFraudReport(L, R, t, startDate, endDate, sorted, storeOk) ==
    LET start == IF startDate = NoDate THEN t - 7 * 24 * 60 * 60 * 1000 ELSE startDate
        end == IF endDate = NoDate THEN t ELSE endDate
        transactions == TransactionsIn(L, start, end)
    IN  [period |-> [start |-> start, end |-> end],
         totalTransactions |-> Cardinality(transactions),
         failedTransactions |-> Cardinality({r \in transactions : r.status = "failed"}),
         suspiciousUsers |-> suspiciousUsersOf(userActivityOf(transactions)),
         flaggedUsers |-> IF storeOk THEN getFlaggedUsers(R, t) ELSE {},
         topUsers |-> Slice(sorted, TOP_USERS),
         providerBreakdown |->
             LET providerActivity == providerActivityOf(transactions)
             IN  {[providerId |-> p, completions |-> providerActivity[p]] :
                     p \in DOMAIN providerActivity}]

InitReport ==
    /\ now = T0
    /\ ledger \in ReportLedgers
    /\ redis \in {{}, flagUserForReview({}, T0 - HOUR, "u1", "manual review", TRUE)}
    /\ call = [p \in Procs |-> IdleCall]
    /\ returned = NoReturn
    /\ ticks = 0
    /\ calls = 0

(* the ledger query may reject, which rejects the report; a failing store  *)
(* is caught inside getFlaggedUsers                                        *)
GenerateFraudReport(startDate, endDate) ==
    /\ calls < MaxReports
    /\ calls' = calls + 1
    /\ \E ledgerOk \in BOOLEAN, storeOk \in BOOLEAN :
          IF ledgerOk
          THEN LET start == IF startDate = NoDate THEN now - 7 * DAY ELSE startDate
                   end == IF endDate = NoDate THEN now ELSE endDate
                   userActivity == userActivityOf(TransactionsIn(ledger, start, end))
               IN  \E sorted \in SortedEntries(userActivity, DOMAIN userActivity) :
                      returned' = [op |-> "generateFraudReport", storeRead |-> storeOk,
                                   value |-> generateFraudReport(ledger, redis, now, startDate,
                                                                 endDate, sorted, storeOk)]
          ELSE returned' = [op |-> "generateFraudReport rejected"]
    /\ UNCHANGED <<now, ledger, redis, call, ticks>>

NextReport ==
    \/ \E startDate \in ReportStarts, endDate \in ReportEnds :
          GenerateFraudReport(startDate, endDate)
    \/ \E d \in TickSteps : Tick(d)
    \/ LongTick

SpecReport == InitReport /\ [][NextReport]_vars

Reported == returned.op = "generateFraudReport"

RecordsOf(u, period) ==
    Cardinality({r \in ledger : /\ r.userId = u
                                /\ period.start <= r.createdAt
                                /\ r.createdAt <= period.end})

(* what the claim says of the ledger part of a returned report             *)
ReportOfLedger ==
    LET report == returned.value
        top == report.topUsers
        named == {top[i].userId : i \in DOMAIN top}
        active == {r.userId : r \in {x \in ledger : RecordsOf(x.userId, report.period) > 0}}
    IN  /\ {e.userId : e \in report.suspiciousUsers}
              = {u \in active : RecordsOf(u, report.period) > 50}
        /\ \A e \in report.suspiciousUsers : e.completions = RecordsOf(e.userId, report.period)
        /\ Len(top) <= 10
        /\ Len(top) = Min(10, Cardinality(active))
        /\ \A i \in DOMAIN top : top[i].completions = RecordsOf(top[i].userId, report.period)
        /\ \A i, j \in DOMAIN top : i < j =>
              /\ top[i].completions >= top[j].completions
              /\ top[i].userId # top[j].userId
        /\ \A u \in active \ named : \A i \in DOMAIN top :
              RecordsOf(u, report.period) <= top[i].completions
        /\ report.failedTransactions =
              Cardinality({r \in ledger : /\ r.status = "failed"
                                          /\ report.period.start <= r.createdAt
                                          /\ r.createdAt <= report.period.end})

CurrentFlagged == {JSONparse(e.value) : e \in {x \in redis : x.key[1] = "fraud:flagged"
                                                            /\ x.expiresAt > now}}

MaxDuplicateChecks == 2

(* u1 was credited 500 from p1 under another id 59 s ago                   *)
MinuteLedger == {Rec(901, "u1", "p1", 500, "completed", T0 - 59 * SECOND)}

InitDuplicate ==
    /\ now = T0
    /\ ledger \in {EmptyLedger, MixedLedger, BusyHourLedger, MinuteLedger}
    /\ redis = {}
    /\ call = [p \in Procs |-> IdleCall]
    /\ returned = NoReturn
    /\ ticks = 0
    /\ calls = 0

CheckDuplicate(u, ext, amount, prov) ==
    /\ calls < MaxDuplicateChecks
    /\ calls' = calls + 1
    /\ returned' = [op |-> "checkDuplicate", userId |-> u, externalTransactionId |-> ext,
                    amount |-> amount, providerId |-> prov,
                    value |-> checkDuplicate(ledger, now, ext, u, amount, prov)]
    /\ UNCHANGED <<now, ledger, redis, call, ticks>>

(* the caller credits an event                                             *)
RecordEvent(u, ext, amount, prov) ==
    /\ calls < MaxDuplicateChecks
    /\ ~\E r \in ledger : r.externalTransactionId = ext /\ r.status # "failed"
    /\ calls' = calls + 1
    /\ ledger' = ledger \cup {Rec(ext, u, prov, amount, "completed", now)}
    /\ returned' = NoReturn
    /\ UNCHANGED <<now, redis, call, ticks>>

NextDuplicate ==
    \/ \E e \in Events : CheckDuplicate(e[1], e[2], e[3], e[4])
    \/ \E e \in Events : RecordEvent(e[1], e[2], e[3], e[4])
    \/ \E d \in TickSteps : Tick(d)

SpecDuplicate == InitDuplicate /\ [][NextDuplicate]_vars

IdMatch == \E r \in ledger : r.externalTransactionId = returned.externalTransactionId

NearMatch ==
    \E r \in ledger : /\ r.userId = returned.userId
                      /\ r.providerId = returned.providerId
                      /\ r.convertedAmount = returned.amount
                      /\ now - r.createdAt <= 60 * SECOND

(* C23: checkDuplicate returns isDuplicate = true with reason 'Similar     *)
(* transaction within 1 minute' iff no record has the event's external id  *)
(* and a record of the same user, provider and amount was created within   *)
(* the last 60 seconds; it returns isDuplicate = false iff neither check   *)
(* matches; when both match the exact-id reason is returned.               *)
C23_NearDuplicateContract ==
    returned.op = "checkDuplicate" =>
        LET v == returned.value
        IN  /\ (v.isDuplicate /\ v.reason = "Similar transaction within 1 minute")
                  <=> (~IdMatch /\ NearMatch)
            /\ ~v.isDuplicate <=> (~IdMatch /\ ~NearMatch)
            /\ IdMatch => (v.isDuplicate /\ v.reason = "Transaction ID already exists")

(* both checks match and the exact-id reason is the one returned           *)
C23_Witness ==
    /\ returned.op = "checkDuplicate"
    /\ IdMatch
    /\ NearMatch
    /\ returned.value.reason = "Transaction ID already exists"

(* ====================================================================== *)
(* analyzeUserActivity called on its own                                   *)
(* ====================================================================== *)
MaxAnalyses == 2

(* u2: six completions from one provider, 20 s apart, the newest 40 s ago  *)
SixFastLedger ==
    {Rec(600 + i, "u2", "p1", 250, "completed", T0 - 40 * SECOND - (6 - i) * 20 * SECOND)
        : i \in 1..6}

(* u1: 12 completions of round amounts in the last 24 h, 10 min apart,     *)
(* every fourth one failed                                                 *)
RoundAmountLedger ==
    {Rec(2000 + i, "u1", IF i % 2 = 0 THEN "p2" ELSE "p1", 500,
         IF i % 4 = 0 THEN "failed" ELSE "completed", T0 - i * 600 * SECOND) : i \in 1..12}

InitAnalyze ==
    /\ now = T0
    /\ ledger \in {MixedLedger, BusyHourLedger, NewAccountLedger, SixFastLedger,
                   RoundAmountLedger}
    /\ redis = {}
    /\ call = [p \in Procs |-> IdleCall]
    /\ returned = NoReturn
    /\ ticks = 0
    /\ calls = 0

AnalyzeUserActivity(u) ==
    /\ calls < MaxAnalyses
    /\ calls' = calls + 1
    /\ returned' = [op |-> "analyzeUserActivity", userId |-> u,
                    value |-> analyzeUserActivity(ledger, now, u)]
    /\ UNCHANGED <<now, ledger, redis, call, ticks>>

NextAnalyze ==
    \/ \E u \in Users : AnalyzeUserActivity(u)
    \/ \E u \in Users : calls < MaxAnalyses /\ RecordCompletion(u)
    \/ \E d \in TickSteps : Tick(d)

SpecAnalyze == InitAnalyze /\ [][NextAnalyze]_vars

(* the 100 newest of S                                                     *)
Newest100(S) ==
    {r \in S : Cardinality({q \in S : q.createdAt > r.createdAt}) < 100}

(* C24: analyzeUserActivity(u) measures at most the 100 most recent        *)
(* completed records of u from the last 24 hours: completionsLast24h is    *)
(* their number (never above 100), completionsLastHour the number of them  *)
(* from the last hour, and pending or failed records change no metric and  *)
(* no label.                                                               *)
C24_AnalyzerWindow ==
    returned.op = "analyzeUserActivity" =>
        LET v == returned.value
            window == Newest100(CompletedSince(returned.userId, now - DAY))
        IN  /\ v.completionsLast24h = Cardinality(window)
            /\ v.completionsLast24h <= 100
            /\ v.completionsLastHour =
                  Cardinality({r \in window : r.createdAt >= now - HOUR})
            /\ v = analyzeUserActivity({r \in ledger : r.status = "completed"}, now,
                                       returned.userId)

HasLabel(v, label) == \E i \in DOMAIN v.suspiciousPatterns : v.suspiciousPatterns[i] = label

RoundAmountsOf(u) ==
    Cardinality({r \in ledger : /\ r.userId = u
                                /\ r.createdAt >= now - DAY
                                /\ r.convertedAmount % 100 = 0})

(* C25: each label of analyzeUserActivity is present iff its own condition *)
(* holds: high completion rate iff completionsLastHour > 10; unusually     *)
(* fast completions iff avgCompletionTime < 60 and the window holds at     *)
(* least 6 records; single provider focus iff uniqueProviders = 1 and      *)
(* completionsLast24h > 20; mostly round amounts iff more than 80% of the  *)
(* amounts are multiples of 100 and completionsLast24h > 10.               *)
C25_LabelConditions ==
    returned.op = "analyzeUserActivity" =>
        LET v == returned.value
        IN  /\ HasLabel(v, "High completion rate (>10/hour)") <=> v.completionsLastHour > 10
            /\ HasLabel(v, "Unusually fast completions (<60s avg)")
                  <=> ( /\ AvgBelow(v.totalTimeBetween, v.completionPairs, 60)
                        /\ v.completionsLast24h >= 6 )
            /\ HasLabel(v, "Single provider focus (>20 completions)")
                  <=> (v.uniqueProviders = 1 /\ v.completionsLast24h > 20)
            /\ HasLabel(v, "Mostly round amounts (possible testing)")
                  <=> ( /\ 100 * RoundAmountsOf(returned.userId) > 80 * v.completionsLast24h
                        /\ v.completionsLast24h > 10 )

(* ====================================================================== *)
(* Explanations of the decisions of checkForFraud                          *)
(* ====================================================================== *)
(* C27: whenever checkForFraud returns flag or block, reasons is not       *)
(* empty, and the flag a blocking call has persisted carries a non-empty   *)
(* reason string.                                                          *)
C27_DecisionsExplained ==
    Gate =>
        /\ returned.value.action \in {"flag", "block"} => returned.value.reasons # <<>>
        /\ returned.value.action = "block" =>
              \A e \in redis :
                  (e.key = FlagKey(returned.userId) /\ JSONparse(e.value).flaggedAt = now)
                      => JSONparse(e.value).reason # ""

(* ---------------------------------------------------------------------- *)
(* The two ledger reads of one call: calculateRiskScore reads the user's   *)
(* records (line 222) and checkForFraud reads them again (line 305). The   *)
(* call below keeps the labels its score counted next to its locals.       *)
(* ---------------------------------------------------------------------- *)
MaxSnapshotCalls == 2

(* u1: ten completions in the last hour, 120 s apart, the newest 71 s ago  *)
TenInHourLedger ==
    {Rec(700 + i, "u1", IF i % 2 = 0 THEN "p2" ELSE "p1", 250, "completed",
         T0 - 71 * SECOND - (10 - i) * 120 * SECOND) : i \in 1..10}

InitSnapshot ==
    /\ now = T0
    /\ ledger = TenInHourLedger
    /\ redis = {}
    /\ call = [p \in Procs |-> IdleCall]
    /\ returned = NoReturn
    /\ ticks = 0
    /\ calls = 0

(* StepCalculateRiskScore, remembering activity.suspiciousPatterns of the  *)
(* read made inside calculateRiskScore                                     *)
StepCalculateRiskScoreCounted(p) ==
    /\ call[p].pc = "calculateRiskScore"
    /\ LET c == call[p]
           activity == analyzeUserActivity(ledger, now, c.userId)
       IN  call' = [call EXCEPT ![p] =
                      ("counted" :> activity.suspiciousPatterns) @@
                      [AfterRiskScore(c, riskScoreOf(activity, findUserById(c.userId), now))
                          EXCEPT !.pc = "analyzeUserActivity"]]
    /\ returned' = NoReturn
    /\ UNCHANGED <<now, ledger, redis, ticks, calls>>

NextSnapshot ==
    \/ \E p \in Procs, e \in Events :
          calls < MaxSnapshotCalls /\ Begin(p, e[1], e[2], e[3], e[4])
    \/ \E p \in Procs : StepCheckDuplicate(p)
    \/ \E p \in Procs : StepCheckRateLimit(p)
    \/ \E p \in Procs : StepCheckCompletionCooldown(p)
    \/ \E p \in Procs : StepCalculateRiskScoreCounted(p)
    \/ \E p \in Procs : StepAnalyzeUserActivity(p)
    \/ \E p \in Procs : StepFlagUserForReview(p)
    \/ \E p \in Procs : CallerHonours(p)

SpecSnapshot == InitSnapshot /\ [][NextSnapshot]_vars

PatternLabels ==
    {"High completion rate (>10/hour)", "Unusually fast completions (<60s avg)",
     "Single provider focus (>20 completions)", "Mostly round amounts (possible testing)"}

(* C28: when checkForFraud returns, the pattern labels in its reasons are  *)
(* exactly the labels that its account risk score counted (+10 each),      *)
(* whatever other calls and their credits did to the ledger meanwhile.     *)
C28_OneSnapshot ==
    Gate =>
        LET c == call[returned.proc]
        IN  {returned.value.reasons[i] : i \in DOMAIN returned.value.reasons} \cap PatternLabels
                = {c.counted[i] : i \in DOMAIN c.counted}

(* ---------------------------------------------------------------------- *)
(* Near-duplicates under concurrent delivery                               *)
(* ---------------------------------------------------------------------- *)
(* the records the caller has written since the start                      *)
Credited == {r \in ledger : r.status = "completed" /\ r.createdAt >= T0}

(* C29: in every interleaving of checkForFraud calls and crediting writes, *)
(* two events with different external ids and the same userId, providerId  *)
(* and convertedAmount that arrive within 60 seconds of each other are     *)
(* never both credited.                                                    *)
C29_NearDuplicatesSuppressed ==
    \A r \in Credited, q \in Credited :
        ( /\ r.externalTransactionId # q.externalTransactionId
          /\ r.userId = q.userId
          /\ r.providerId = q.providerId
          /\ r.convertedAmount = q.convertedAmount
          /\ r.createdAt <= q.createdAt )
            => q.createdAt - r.createdAt > 60 * SECOND

(* ====================================================================== *)
(* The operations on the expiring store when the store fails: each wraps   *)
(* its store calls in try/catch. ok = FALSE is a store call throwing.      *)
(* ====================================================================== *)
MaxStoreCalls == 3

(* a catch that passes the error on                                        *)
isUserFlaggedCaught_Rethrow(R, t, u, ok) ==
    IF ok THEN [raised |-> FALSE, value |-> isUserFlagged(R, t, u)]
    ELSE [raised |-> TRUE, value |-> Null]

(* try { return !!(await redis.get(key)) } catch { return false }          *)
isUserFlaggedCaught(R, t, u, ok) ==
    IF ok THEN [raised |-> FALSE, value |-> isUserFlagged(R, t, u)]
    ELSE [raised |-> FALSE, value |-> FALSE]

(* try { keys, then get and parse each } catch { return [] }               *)
getFlaggedUsersCaught(R, t, ok) ==
    IF ok THEN [raised |-> FALSE, value |-> getFlaggedUsers(R, t)]
    ELSE [raised |-> FALSE, value |-> {}]

StoredFlag(u, reason) ==
    [key |-> FlagKey(u),
     value |-> JSONstringify([userId |-> u, reason |-> reason, flaggedAt |-> T0 - HOUR]),
     expiresAt |-> T0 - HOUR + FLAG_TTL * 1000]

InitStore ==
    /\ now = T0
    /\ ledger = EmptyLedger
    /\ redis \in {{}, {StoredFlag("u1", "chargeback")}, {StoredFlag("u1", "chargeback"), BusyIPRecord}}
    /\ call = [p \in Procs |-> IdleCall]
    /\ returned = NoReturn
    /\ ticks = 0
    /\ calls = 0

IsUserFlagged(u) ==
    /\ calls < MaxStoreCalls
    /\ calls' = calls + 1
    /\ \E ok \in BOOLEAN :
          LET result == isUserFlaggedCaught(redis, now, u, ok)
          IN  returned' = [op |-> "isUserFlagged", userId |-> u, storeOk |-> ok,
                           raised |-> result.raised, value |-> result.value]
    /\ UNCHANGED <<now, ledger, redis, call, ticks>>

GetFlaggedUsers ==
    /\ calls < MaxStoreCalls
    /\ calls' = calls + 1
    /\ \E ok \in BOOLEAN :
          LET result == getFlaggedUsersCaught(redis, now, ok)
          IN  returned' = [op |-> "getFlaggedUsers", storeOk |-> ok,
                           raised |-> result.raised, value |-> result.value]
    /\ UNCHANGED <<now, ledger, redis, call, ticks>>

NextStore ==
    \/ \E u \in Users, reason \in AdminReasons : Quiescent /\ FlagUserForReview(u, reason)
    \/ \E u \in Users : Quiescent /\ ClearUserFlag(u)
    \/ \E u \in Users : Quiescent /\ IsUserFlagged(u)
    \/ Quiescent /\ GetFlaggedUsers
    \/ \E ip \in IPs, i \in 1..3 : calls < MaxStoreCalls /\ BeginTrack(1, ip, IPUser(i))
    \/ TrackGet(1)
    \/ TrackSetex(1)
    \/ \E d \in TickSteps : Tick(d)

SpecStore == InitStore /\ [][NextStore]_vars

(* the store call of the step that produced this return threw              *)
StoreFailed(ret) ==
    \/ ret.op = "flagUserForReview" /\ ~ret.stored
    \/ ret.op = "clearUserFlag" /\ ~ret.deleted
    \/ ret.op = "isUserFlagged" /\ ~ret.storeOk
    \/ ret.op = "getFlaggedUsers" /\ ~ret.storeOk
    \/ ret.op = "trackIPAddress" /\ ~ret.stored

(* C30: the operations on the expiring store return normally whatever the  *)
(* store does, and a call whose store call fails leaves the store as it    *)
(* was: flagUserForReview and clearUserFlag just return, isUserFlagged     *)
(* returns false, getFlaggedUsers returns an empty list and                *)
(* trackIPAddress returns suspicious = false.                              *)
C30_StoreErrorsSwallowed ==
    [][ /\ returned'.op \in {"isUserFlagged", "getFlaggedUsers"} => ~returned'.raised
        /\ StoreFailed(returned') =>
              /\ redis' = redis
              /\ returned'.op = "isUserFlagged" => returned'.value = FALSE
              /\ returned'.op = "getFlaggedUsers" => returned'.value = {}
              /\ returned'.op = "trackIPAddress" => ~returned'.value.suspicious ]_vars

(* a failing read of a flag that is there                                  *)
C30_Witness ==
    /\ returned.op = "isUserFlagged"
    /\ ~returned.storeOk
    /\ \E e \in redis : e.key = FlagKey(returned.userId) /\ e.expiresAt > now
    /\ returned.value = FALSE

====
